---- MODULE Spec2Model ----
(***************************************************************************)
(* Birthday Board (src/app.py): the date recurrence of Person, the date    *)
(* cell parser, the cached CSV loader, the calendar export and the script  *)
(* that Streamlit re-runs on every interaction.                            *)
(*                                                                         *)
(* Python values are modelled as follows.                                  *)
(*   None            the empty tuple <<>>                                  *)
(*   datetime.date   a record [year, month, day]                           *)
(*   a call's outcome [kind |-> "ok", val |-> v] or [kind |-> "raise", ...] *)
(*   str             a tuple of one-character strings                      *)
(*   pd.DataFrame    a tuple of row records (the empty tuple when empty)   *)
(***************************************************************************)
EXTENDS Integers, Sequences, FiniteSets, TLC

VARIABLES
    today,      \* what date.today() returns
    person,     \* SpecOcc: the Person under evaluation
    occ,        \* SpecOcc: outcome of evaluating person against today
    cell_text,  \* SpecParse: the date cell's text
    parsed,     \* SpecParse: outcome of parse_date_cell(cell_text)
    disk,       \* Spec: the CSV file at each path
    cache,      \* Spec: st.cache_data's entry for load_birthdays at each path
    session,    \* Spec: the sidebar widgets' values
    page_df,    \* Spec: the script's df, the outcome of its load_birthdays call
    page_m,     \* Spec: the script's m, the filtered frame
    frame,      \* SpecIcs: the frame handed to make_ics
    doc         \* SpecIcs: outcome of make_ics(frame)

occVars == <<person, occ>>

parseVars == <<cell_text, parsed>>

appVars == <<disk, cache, session, page_df, page_m>>

icsVars == <<frame, doc>>

vars == <<today, person, occ, cell_text, parsed, disk, cache, session, page_df, page_m,
          frame, doc>>

None == <<>>

Ok(v) == [kind |-> "ok", val |-> v]

Raise(e) == [kind |-> "raise", exc |-> e]

NotRun == [kind |-> "notrun"]

(***************************************************************************)
(* datetime.date                                                           *)
(***************************************************************************)
IsLeap(y) == (y % 4 = 0 /\ y % 100 # 0) \/ y % 400 = 0

DaysInMonth(y, m) ==
    IF m = 2 THEN (IF IsLeap(y) THEN 29 ELSE 28)
    ELSE IF m \in {4, 6, 9, 11} THEN 30 ELSE 31

\* date(y, m, d): the constructor raises ValueError outside the calendar.
date(y, m, d) ==
    IF m \in 1..12 /\ d >= 1 /\ d <= DaysInMonth(y, m)
    THEN Ok([year |-> y, month |-> m, day |-> d])
    ELSE Raise("ValueError")

\* a < b on dates: (year, month, day) compared lexicographically.
DateLT(a, b) ==
    \/ a.year < b.year
    \/ a.year = b.year /\ a.month < b.month
    \/ a.year = b.year /\ a.month = b.month /\ a.day < b.day

DaysBeforeYear(y) ==
    365 * (y - 1) + ((y - 1) \div 4) - ((y - 1) \div 100) + ((y - 1) \div 400)

DaysBeforeMonth(y, m) ==
    <<0, 31, 59, 90, 120, 151, 181, 212, 243, 273, 304, 334>>[m]
    + (IF m > 2 /\ IsLeap(y) THEN 1 ELSE 0)

toordinal(dt) == DaysBeforeYear(dt.year) + DaysBeforeMonth(dt.year, dt.month) + dt.day

\* (a - b).days
DaysBetween(a, b) == toordinal(a) - toordinal(b)

(***************************************************************************)
(* Person                                                                  *)
(***************************************************************************)
\* The except branch of both try blocks of next_birthday: made is what
\* date(y, m, d) gave.
feb28_fallback(made, y, m, d) ==
    IF made.kind = "ok" THEN made
    ELSE IF m = 2 /\ d = 29 THEN date(y, 2, 28)
    ELSE Raise("ValueError")

\* date(y, m, d) inside either try block.
DateOrFeb28(y, m, d) == feb28_fallback(date(y, m, d), y, m, d)

\* Mutant of IsPast: an occurrence falling on the reference date counts as past.
IsPastOrToday(candidate, t) == ~DateLT(t, candidate)

\* The comparison that sends the occurrence to next year.
IsPast(candidate, t) == DateLT(candidate, t)

\* next_birthday from "if candidate < today" on; first is this year's candidate.
roll_over(p, t, first) ==
    IF first.kind = "raise" THEN first
    ELSE IF IsPast(first.val, t) THEN DateOrFeb28(t.year + 1, p.month, p.day)
    ELSE first

\* Mutant of next_birthday: no look at this year's occurrence.
next_birthday_always_next_year(p, t) == DateOrFeb28(t.year + 1, p.month, p.day)

next_birthday(p, t) == roll_over(p, t, DateOrFeb28(t.year, p.month, p.day))

\* The last line of turning_age.
age_on(p, next_bd) ==
    IF next_bd.kind = "raise" THEN next_bd
    ELSE Ok(<<next_bd.val.year - p.year[1]>>)

\* Mutant of turning_age: the age reached in the reference date's own year.
turning_age_this_year(p, t) ==
    IF p.year = None THEN Ok(None) ELSE Ok(<<t.year - p.year[1]>>)

turning_age(p, t) ==
    IF p.year = None THEN Ok(None) ELSE age_on(p, next_birthday(p, t))

\* The dict load_birthdays appends.
record_of(p, next_bd, days_until, turning) ==
    [name |-> p.name, month |-> p.month, day |-> p.day,
     year |-> p.year, notes |-> p.notes,
     next_date |-> next_bd,
     days_until |-> days_until,
     turning |-> turning,
     is_today |-> (days_until = 0)]

\* The loop body past next_birthday: next_bd is what it gave.
record_after(p, t, next_bd) ==
    IF next_bd.kind = "raise" THEN next_bd
    ELSE Ok(record_of(p, next_bd.val, DaysBetween(next_bd.val, t),
                      turning_age(p, t).val))

\* The body of load_birthdays' loop once a row has parsed: the record appended
\* for Person p, or the exception next_birthday lets escape.
MakeRecord(p, t) == record_after(p, t, next_birthday(p, t))

(***************************************************************************)
(* Date cells.  A cell's text is a tuple of tokens: a numeric field (a run  *)
(* of digits, given by its value: below 100 it stands for the one- and     *)
(* two-digit spellings "5" and "05", above for the digits of the value), a *)
(* separator character, or a word.  Fields and separators alternate.       *)
(***************************************************************************)
NumTok(v) == [t |-> "num", v |-> v]

SepTok(c) == [t |-> "sep", c |-> c]

WordTok(w) == [t |-> "word", w |-> w]

\* s.count(c)
count(s, c) == Cardinality({i \in DOMAIN s : s[i] = SepTok(c)})

\* Leading and trailing occurrences of blank removed from tuple s.
strip_of(s, blank) ==
    LET keep == {i \in DOMAIN s : s[i] # blank}
    IN  IF keep = {} THEN <<>>
        ELSE LET lo == CHOOSE i \in keep : \A j \in keep : i <= j
                 hi == CHOOSE i \in keep : \A j \in keep : i >= j
             IN  SubSeq(s, lo, hi)

\* str.strip() of a cell's text.
strip(s) == strip_of(s, SepTok(" "))

\* int(text) of a text already stripped.
int_stripped(s) ==
    IF Len(s) = 1 /\ s[1].t = "num" THEN Ok(s[1].v) ELSE Raise("ValueError")

\* int(text): one numeric field, blanks around it allowed; anything else raises.
int(s) == int_stripped(strip(s))

\* parserinfo.month(name): 0 stands for None.
month_of(w) ==
    CASE w = "Feb" -> 2
      [] w = "May" -> 5
      [] OTHER -> 0

\* _ymd.append once the label is settled: a second month or year raises.
ymd_append_labelled(ymd, v, lab, n) ==
    IF lab = "M" /\ ymd.m # 0 THEN Raise("ValueError")
    ELSE IF lab = "Y" /\ ymd.y # 0 THEN Raise("ValueError")
    ELSE Ok([vals |-> Append(ymd.vals, v),
             y |-> IF lab = "Y" THEN n ELSE ymd.y,
             m |-> IF lab = "M" THEN n ELSE ymd.m])

\* _ymd.append(val, label): a value above 100 (three digits or more) is the
\* year.  r is the _ymd so far, or the exception already raised.
ymd_append(r, v, label) ==
    IF r.kind = "raise" THEN r
    ELSE ymd_append_labelled(r.val, v, IF v > 100 THEN "Y" ELSE label,
                             Len(r.val.vals) + 1)

\* _ymd.append(token): int(token) raises on anything but digits.
ymd_append_tok(r, tok) ==
    IF tok.t = "num" THEN ymd_append(r, tok.v, "") ELSE Raise("ValueError")

\* _ymd.append of a token that may be a month name.
ymd_append_month_or_tok(r, tok) ==
    IF tok.t = "word" /\ month_of(tok.w) # 0
    THEN ymd_append(r, month_of(tok.w), "M")
    ELSE ymd_append_tok(r, tok)

\* _ymd.could_be_day(value); no token is ever labelled as the day.
could_be_day(r, v) ==
    IF r.val.m = 0 THEN v >= 1 /\ v <= 31
    ELSE IF r.val.y = 0 THEN v >= 1 /\ v <= DaysInMonth(2000, r.val.vals[r.val.m])
    ELSE v >= 1 /\ v <= DaysInMonth(r.val.vals[r.val.y], r.val.vals[r.val.m])

IsDateSep(tok) == tok = SepTok("-") \/ tok = SepTok("/")

\* _ymd.append of the token after a separator: digits, a month name, or
\* ValueError.
ymd_append_second(r, tok) ==
    IF tok.t = "num" THEN ymd_append(r, tok.v, "")
    ELSE IF tok.t = "word" /\ month_of(tok.w) # 0
    THEN ymd_append(r, month_of(tok.w), "M")
    ELSE Raise("ValueError")

\* parser._parse's token loop (with _parse_numeric_token) from token i on, for
\* texts without time-of-day, weekday or time zone tokens and with at most
\* three fields.  r is the _ymd collected so far.
RECURSIVE parse_tokens(_, _, _)
\* "01-01[-01]": the first member is in r; l[i + 1] is the separator.
numeric_with_sep(l, i, r) ==
    IF i + 2 <= Len(l) /\ l[i + 2].t # "sep"
    THEN IF i + 3 <= Len(l) /\ l[i + 3] = l[i + 1]
         THEN IF i + 4 > Len(l) THEN Raise("IndexError")
              ELSE parse_tokens(l, i + 5,
                       ymd_append_month_or_tok(ymd_append_second(r, l[i + 2]), l[i + 4]))
         ELSE parse_tokens(l, i + 3, ymd_append_second(r, l[i + 2]))
    ELSE parse_tokens(l, i + 2, r)

\* "Jan-01[-99]": the month is in r; l[i + 1] is the separator.
month_with_sep(l, i, r) ==
    IF i + 2 > Len(l) THEN Raise("IndexError")
    ELSE IF i + 3 <= Len(l) /\ l[i + 3] = l[i + 1]
    THEN IF i + 4 > Len(l) THEN Raise("IndexError")
         ELSE parse_tokens(l, i + 5,
                  ymd_append_tok(ymd_append_tok(r, l[i + 2]), l[i + 4]))
    ELSE parse_tokens(l, i + 3, ymd_append_tok(r, l[i + 2]))

parse_tokens(l, i, r) ==
    IF r.kind = "raise" THEN r
    ELSE IF i > Len(l) THEN r
    ELSE CASE l[i].t = "sep" -> parse_tokens(l, i + 1, r)
           [] l[i].t = "num" ->
                IF i + 1 <= Len(l) /\ IsDateSep(l[i + 1])
                THEN numeric_with_sep(l, i, ymd_append(r, l[i].v, ""))
                ELSE IF i + 1 > Len(l) \/ l[i + 1].t = "sep"
                THEN parse_tokens(l, i + 1, ymd_append(r, l[i].v, ""))
                ELSE IF could_be_day(r, l[i].v)
                THEN parse_tokens(l, i + 1, ymd_append(r, l[i].v, ""))
                ELSE Raise("ValueError")
           [] l[i].t = "word" ->
                IF month_of(l[i].w) = 0 THEN Raise("ValueError")
                ELSE IF i + 1 <= Len(l) /\ IsDateSep(l[i + 1])
                THEN month_with_sep(l, i, ymd_append(r, month_of(l[i].w), "M"))
                ELSE parse_tokens(l, i + 1, ymd_append(r, month_of(l[i].w), "M"))

Opt(v) == <<v>>

YMD(y, m, d) == Ok([y |-> y, m |-> m, d |-> d])

\* _ymd._resolve_from_stridxs: the labels place the values.
resolve_from_stridxs(ymd, v, n) ==
    YMD(IF ymd.y # 0 THEN Opt(v[ymd.y]) ELSE None,
        IF ymd.m # 0 THEN Opt(v[ymd.m]) ELSE None,
        IF n = 3 THEN Opt(v[CHOOSE i \in 1..3 : i # ymd.y /\ i # ymd.m]) ELSE None)

\* One member, or two with a month name among them.
resolve_short(ymd, v, n) ==
    IF ymd.m = 0
    THEN IF v[1] > 31 THEN YMD(Opt(v[1]), None, None) ELSE YMD(None, None, Opt(v[1]))
    ELSE IF n = 1 THEN YMD(None, Opt(v[ymd.m]), None)
    ELSE IF v[3 - ymd.m] > 31 THEN YMD(Opt(v[3 - ymd.m]), Opt(v[ymd.m]), None)
    ELSE YMD(None, Opt(v[ymd.m]), Opt(v[3 - ymd.m]))

\* Three members, yearfirst=True and dayfirst=False.
resolve_three(ymd, v) ==
    IF ymd.m = 1
    THEN IF v[2] > 31 THEN YMD(Opt(v[2]), Opt(v[1]), Opt(v[3]))
         ELSE YMD(Opt(v[3]), Opt(v[1]), Opt(v[2]))
    ELSE IF ymd.m = 2
    THEN IF v[1] > 31 \/ v[3] <= 31 THEN YMD(Opt(v[1]), Opt(v[2]), Opt(v[3]))
         ELSE YMD(Opt(v[3]), Opt(v[2]), Opt(v[1]))
    ELSE IF ymd.m = 3
    THEN IF v[2] > 31 THEN YMD(Opt(v[2]), Opt(v[3]), Opt(v[1]))
         ELSE YMD(Opt(v[1]), Opt(v[3]), Opt(v[2]))
    ELSE IF v[1] > 31 \/ ymd.y = 1 \/ (v[2] <= 12 /\ v[3] <= 31)
    THEN YMD(Opt(v[1]), Opt(v[2]), Opt(v[3]))
    ELSE IF v[1] > 12 THEN YMD(Opt(v[3]), Opt(v[2]), Opt(v[1]))
    ELSE YMD(Opt(v[3]), Opt(v[1]), Opt(v[2]))

\* resolve_ymd with v the values, n their number and labelled the number of
\* values a label places.
resolve_counted(ymd, v, n, labelled) ==
    IF (n = labelled /\ n > 0) \/ (n = 3 /\ labelled = 2)
    THEN resolve_from_stridxs(ymd, v, n)
    ELSE IF n > 3 THEN Raise("ValueError")
    ELSE IF n = 1 \/ (ymd.m # 0 /\ n = 2) THEN resolve_short(ymd, v, n)
    ELSE IF n = 2
    THEN IF v[1] > 31 THEN YMD(Opt(v[1]), Opt(v[2]), None)
         ELSE IF v[2] > 31 THEN YMD(Opt(v[2]), Opt(v[1]), None)
         ELSE YMD(None, Opt(v[1]), Opt(v[2]))
    ELSE IF n = 3 THEN resolve_three(ymd, v)
    ELSE YMD(None, None, None)

\* _ymd.resolve_ymd(yearfirst=True, dayfirst=False): which value is the year,
\* the month and the day; each is None when the text does not give it.
resolve_ymd(ymd) ==
    resolve_counted(ymd, ymd.vals, Len(ymd.vals),
                    (IF ymd.y # 0 THEN 1 ELSE 0) + (IF ymd.m # 0 THEN 1 ELSE 0))

\* The window convertyear puts a two-digit year in: within fifty years of now.
near_century(y, t) ==
    IF y >= t.year + 50 THEN y - 100
    ELSE IF y < t.year - 50 THEN y + 100
    ELSE y

\* parserinfo.convertyear
convertyear(year, century_specified, t) ==
    IF year < 100 /\ ~century_specified
    THEN near_century(year + (t.year \div 100) * 100, t)
    ELSE year

\* default.replace(...) with the year and month settled.
replace_default(year, month, d, t) ==
    IF d # None THEN date(year, month, d[1])
    ELSE IF month \notin 1..12 THEN Raise("ValueError")
    ELSE IF t.day > DaysInMonth(year, month)
    THEN date(year, month, DaysInMonth(year, month))
    ELSE date(year, month, t.day)

\* parser._build_naive: what the text does not give is taken from the default,
\* the current date; a defaulted day is cut to the month's length.
build_naive(res, century_specified, t) ==
    replace_default(IF res.y = None THEN t.year
                    ELSE convertyear(res.y[1], century_specified, t),
                    IF res.m = None THEN t.month ELSE res.m[1],
                    res.d, t)

\* Any ValueError on the way is raised as ParserError.
as_parser_error(built) == IF built.kind = "raise" THEN Raise("ParserError") ELSE built

\* parse() past resolve_ymd: res is what it gave.
parse_resolved(res, century_specified, t) ==
    IF res.kind = "raise" THEN Raise("ParserError")
    ELSE IF res.val.y = None /\ res.val.m = None /\ res.val.d = None
    THEN Raise("ParserError")
    ELSE as_parser_error(build_naive(res.val, century_specified, t))

\* parse() past the token loop: ymd is what it collected.
parse_collected(ymd, t) ==
    IF ymd.kind = "raise" THEN Raise("ParserError")
    ELSE parse_resolved(resolve_ymd(ymd.val), ymd.val.y # 0, t)

\* dateutil's parser.parse(s, dayfirst=False, yearfirst=True) on date t: the
\* date it builds, or ParserError (a ValueError).
parser_parse(s, t) ==
    parse_collected(parse_tokens(s, 1, Ok([vals |-> <<>>, y |-> 0, m |-> 0])), t)

\* The test of the first branch: "-" in s and len(s.split("-")) == 2.
IsTwoPart(s) == count(s, "-") = 1

\* The test that strips the year the general parser returned.
IsYearless(s) == count(s, "-") = 1 \/ count(s, "/") = 1

\* return int(m), int(d), None
month_day(mm, dd) ==
    IF mm.kind = "raise" \/ dd.kind = "raise" THEN Raise("ValueError")
    ELSE Ok(<<mm.val, dd.val, None>>)

\* s.split("-") of a text with one "-", at index k.
split_at(s, k) == month_day(int(SubSeq(s, 1, k - 1)), int(SubSeq(s, k + 1, Len(s))))

\* parse_date_cell past parser.parse: dt is what it gave.
month_day_year(s, dt) ==
    IF dt.kind = "raise" THEN Raise("ValueError")
    ELSE IF IsYearless(s) THEN Ok(<<dt.val.month, dt.val.day, None>>)
    ELSE Ok(<<dt.val.month, dt.val.day, Opt(dt.val.year)>>)

\* parse_date_cell past s = str(cell).strip().
parse_stripped(s, t) ==
    IF IsTwoPart(s) THEN split_at(s, CHOOSE i \in DOMAIN s : s[i] = SepTok("-"))
    ELSE month_day_year(s, parser_parse(s, t))

\* parse_date_cell(cell) on date t: Ok(<<month, day, year or None>>), or the
\* ValueError it raises.  A cell is never None here: load_birthdays fills
\* missing cells with "".
parse_date_cell(cell, t) == parse_stripped(strip(cell), t)

(***************************************************************************)
(* Names, notes and queries: a str is a tuple of one-character strings.    *)
(* Text the program builds (calendar lines) is a tuple of chunks, a        *)
(* literal of the source being one chunk.                                  *)
(***************************************************************************)
\* str.strip() of a name or a note.
strip_str(s) == strip_of(s, " ")

\* str.replace(' ', '_')
replace_blanks(s) == [i \in DOMAIN s |-> IF s[i] = " " THEN "_" ELSE s[i]]

\* Case folding of the alphabet names and notes are drawn from.
lower(c) ==
    CASE c = "A" -> "a"
      [] c = "B" -> "b"
      [] OTHER -> c

\* The code point order Python compares characters by.
ord(c) ==
    CASE c = " " -> 32
      [] c = "A" -> 65
      [] c = "B" -> 66
      [] c = "_" -> 95
      [] c = "a" -> 97
      [] c = "b" -> 98
      [] c = "l" -> 108
      [] c = "o" -> 111

\* a < b on str: the first differing character decides, a proper prefix is less.
StrLT(a, b) ==
    \E k \in 1..(Len(b)) :
        /\ \A j \in 1..(k - 1) : j <= Len(a) /\ a[j] = b[j]
        /\ k - 1 <= Len(a)
        /\ (k > Len(a) \/ ord(a[k]) < ord(b[k]))

\* Series.str.contains(query, case=False): the query occurs in s, letter case
\* ignored (the alphabet has no regular expression metacharacter).
contains(s, query) ==
    \E i \in 1..(Len(s) + 1) :
        /\ i + Len(query) - 1 <= Len(s)
        /\ \A j \in 1..Len(query) : lower(s[i + j - 1]) = lower(query[j])

Digit(k) == <<"0", "1", "2", "3", "4", "5", "6", "7", "8", "9">>[k + 1]

\* The decimal digits of n >= 0.
RECURSIVE Digits(_)
Digits(n) == IF n < 10 THEN <<Digit(n)>> ELSE Digits(n \div 10) \o <<Digit(n % 10)>>

\* f"{n}" and int formatting
fmt_int(n) == IF n < 0 THEN <<"-">> \o Digits(-n) ELSE Digits(n)

\* f"{n:02d}"
fmt_02d(n) == IF n >= 0 /\ n < 10 THEN <<"0">> \o Digits(n) ELSE fmt_int(n)

\* f"{n:04d}", as strftime's %Y
fmt_04d(n) ==
    IF n < 10 THEN <<"0", "0", "0">> \o Digits(n)
    ELSE IF n < 100 THEN <<"0", "0">> \o Digits(n)
    ELSE IF n < 1000 THEN <<"0">> \o Digits(n)
    ELSE Digits(n)

(***************************************************************************)
(* load_birthdays.  A CSV file is the tuple of its rows [name, date,       *)
(* notes] (read_csv, the column normalisation and fillna("") give the      *)
(* loop these three texts per row); a missing file reads as no rows.       *)
(***************************************************************************)
Missing == [kind |-> "missing"]

File(rows) == [kind |-> "file", rows |-> rows]

\* The frame's rows once read: FileNotFoundError gives the empty shell.
read_csv(f) == IF f.kind = "missing" THEN <<>> ELSE f.rows

\* Person(name=name, month=m, day=d, year=y, notes=...)
Person(name, mdy, notes) ==
    [name |-> name, month |-> mdy[1], day |-> mdy[2], year |-> mdy[3], notes |-> notes]

\* The loop of load_birthdays from row i on: the records, or the exception
\* that left the loop.
RECURSIVE load_rows(_, _, _, _)
\* The end of one pass: rec is the record built, or the exception raised.
append_record(rows, i, t, records, rec) ==
    IF rec.kind = "raise" THEN rec
    ELSE load_rows(rows, i + 1, t, Append(records, rec.val))

\* One pass: name is the stripped name, parsed what parse_date_cell gave.
load_row(rows, i, t, records, name, mdy) ==
    IF name = <<>> THEN load_rows(rows, i + 1, t, records)
    ELSE IF mdy.kind = "raise" THEN load_rows(rows, i + 1, t, records)
    ELSE append_record(rows, i, t, records,
             MakeRecord(Person(name, mdy.val, strip_str(rows[i].notes)), t))

load_rows(rows, i, t, records) ==
    IF i > Len(rows) THEN Ok(records)
    ELSE load_row(rows, i, t, records, strip_str(rows[i].name),
                  parse_date_cell(rows[i].date, t))

\* Mutant of SortKeyLE: the name alone orders the records.
SortKeyLE_name_only(a, b) == ~StrLT(b.name, a.name)

\* a sorts no later than b under ["days_until", "name"].
SortKeyLE(a, b) ==
    \/ a.days_until < b.days_until
    \/ a.days_until = b.days_until /\ ~StrLT(b.name, a.name)

\* x put into the sorted tuple after every element that sorts no later.
RECURSIVE insert_sorted(_, _)
insert_sorted(sorted, x) ==
    IF sorted = <<>> THEN <<x>>
    ELSE IF SortKeyLE(sorted[Len(sorted)], x) THEN Append(sorted, x)
    ELSE Append(insert_sorted(SubSeq(sorted, 1, Len(sorted) - 1), x), sorted[Len(sorted)])

\* out.sort_values(["days_until", "name"]) with reset_index: a stable sort.
RECURSIVE sort_values(_, _)
sort_values(records, n) ==
    IF n = 0 THEN <<>> ELSE insert_sorted(sort_values(records, n - 1), records[n])

\* The end of load_birthdays: the records sorted, or the exception passed on.
sorted_frame(out) ==
    IF out.kind = "raise" THEN out ELSE Ok(sort_values(out.val, Len(out.val)))

\* The body of load_birthdays, run on date t over file f.
load_birthdays(f, t) == sorted_frame(load_rows(read_csv(f), 1, t, <<>>))

(***************************************************************************)
(* make_ics.  The document is the tuple of its lines ("\n".join and        *)
(* encode keep them apart: no text here holds a line break); b"" is the    *)
(* empty tuple.                                                            *)
(***************************************************************************)
ics_dt(d) == fmt_04d(d.year) \o fmt_02d(d.month) \o fmt_02d(d.day)

\* Mutant of ics_uid: the identifier follows the next occurrence's date.
ics_uid_of_next_date(r) ==
    replace_blanks(r.name) \o <<"--">> \o fmt_02d(r.next_date.month)
        \o fmt_02d(r.next_date.day) \o <<"@birthdayboard">>

ics_uid(r) ==
    replace_blanks(r.name) \o <<"--">> \o fmt_02d(r.month) \o fmt_02d(r.day)
        \o <<"@birthdayboard">>

ics_summary(r) ==
    <<"cake ">> \o r.name
        \o (IF r.turning # None THEN <<" turns ">> \o fmt_int(r.turning[1]) ELSE <<>>)

\* The seven lines of one event.
ics_event(r) ==
    << <<"BEGIN:VEVENT">>,
       <<"UID:">> \o ics_uid(r),
       <<"DTSTART;VALUE=DATE:">> \o ics_dt(r.next_date),
       <<"RRULE:FREQ=YEARLY;BYMONTH=">> \o fmt_int(r.month)
            \o <<";BYMONTHDAY=">> \o fmt_int(r.day),
       <<"SUMMARY:">> \o ics_summary(r),
       <<"DESCRIPTION:">> \o r.notes,
       <<"END:VEVENT">> >>

RECURSIVE ics_events(_, _)
ics_events(df, n) ==
    IF n = 0 THEN <<>> ELSE ics_events(df, n - 1) \o ics_event(df[n])

ics_header(cal_name) ==
    << <<"BEGIN:VCALENDAR">>,
       <<"VERSION:2.0">>,
       <<"X-WR-CALNAME:">> \o cal_name,
       <<"PRODID:-//BirthdayBoard//Streamlit//EN">> >>

make_ics(df, cal_name) ==
    IF df = <<>> THEN <<>>
    ELSE ics_header(cal_name) \o ics_events(df, Len(df)) \o << <<"END:VCALENDAR">> >>

(***************************************************************************)
(* The script Streamlit re-runs, down to the filtered frame m.  What       *)
(* follows in the file renders df and m and keeps nothing.                 *)
(***************************************************************************)
DEFAULT_CSV_PATH == "data/birthdays.csv"

tmp_path == "data/_uploaded.csv"

NoEntry == [kind |-> "noentry"]

\* A cache miss: out is what the function gave; a result is stored, an
\* exception is not.
cache_store(path, c, out) ==
    [out |-> out, cache |-> IF out.kind = "ok" THEN [c EXCEPT ![path] = out] ELSE c]

\* @st.cache_data: load_birthdays(path) through the cache, keyed by the path
\* alone.
cached_load(path, c, d, t) ==
    IF c[path] # NoEntry THEN [out |-> c[path], cache |-> c]
    ELSE cache_store(path, c, load_birthdays(d[path], t))

Loaded(got, d) == [out |-> got.out, cache |-> got.cache, disk |-> d]

\* The except branch of the data source selection: first is what the load
\* of tmp_path gave.
fall_back(first, d, t) ==
    IF first.out.kind = "ok" THEN Loaded(first, d)
    ELSE Loaded(cached_load(DEFAULT_CSV_PATH, first.cache, d, t), d)

\* The upload branch once df_raw.to_csv(tmp_path) has written d[tmp_path]
\* (the write itself is taken to succeed).
load_upload(c, d, t) == fall_back(cached_load(tmp_path, c, d, t), d, t)

\* The data source selection: an upload is written to tmp_path and loaded
\* from there; any exception on the way falls back to the default path.
select_source(uploaded, c, d, t) ==
    IF uploaded # None THEN load_upload(c, [d EXCEPT ![tmp_path] = uploaded[1]], t)
    ELSE Loaded(cached_load(DEFAULT_CSV_PATH, c, d, t), d)

\* The search mask of one row.
QueryMask(r, query) == contains(r.name, query) \/ contains(r.notes, query)

\* The "upcoming" mask of one row.
UpcomingMask(r, soon_days) == r.days_until <= soon_days

\* Apply filters.
apply_filters(df, query, soon_days, only_upcoming) ==
    IF df = <<>> THEN df
    ELSE LET Keep(r) == /\ QueryMask(r, query)
                        /\ only_upcoming => UpcomingMask(r, soon_days)
         IN  SelectSeq(df, Keep)

(***************************************************************************)
(* Bounds and input sets                                                   *)
(***************************************************************************)
\* Reference dates range over the calendar years 2023 .. 2022 + NumYears:
\* a common year before a leap year, a leap year, a common year after one.
NumYears == 3

Years == 2023 .. (2022 + NumYears)

DaysOfYear(y) ==
    {[year |-> y, month |-> md[1], day |-> md[2]] :
        md \in {x \in (1..12) \X (1..31) : x[2] <= DaysInMonth(y, x[1])}}

AllDays == UNION {DaysOfYear(y) : y \in Years}

\* Every day of the calendar, Feb 29 included (2024 is a leap year).
ValidMonthDays == {x \in (1..12) \X (1..31) : x[2] <= DaysInMonth(2024, x[1])}

\* What parse_date_cell lets through although no year has such a day.
InvalidMonthDays == {<<2, 30>>, <<4, 31>>, <<13, 45>>}

OriginYears == {None, <<1990>>}

Persons ==
    {[name |-> <<"A">>, month |-> md[1], day |-> md[2], year |-> y, notes |-> <<>>] :
        md \in ValidMonthDays \cup InvalidMonthDays, y \in OriginYears}

\* Rows a CSV file may hold.
Str_Al == <<"A", "l">>

Str_Bo == <<"B", "o">>

RowAl == [name |-> Str_Al, date |-> <<NumTok(5), SepTok("-"), NumTok(27)>>,
          notes |-> <<"b">>]

RowBo == [name |-> <<" ">> \o Str_Bo,
          date |-> <<NumTok(1990), SepTok("-"), NumTok(5), SepTok("-"), NumTok(27)>>,
          notes |-> <<>>]

RowAB == [name |-> <<"a", " ", "B">>, date |-> <<NumTok(5), SepTok("/"), NumTok(26)>>,
          notes |-> <<"A", " ">>]

RowLeap == [name |-> Str_Al, date |-> <<NumTok(2), SepTok("-"), NumTok(29)>>,
            notes |-> <<>>]

\* "02-30": two numeric parts, no such day.
RowBad == [name |-> Str_Bo, date |-> <<NumTok(2), SepTok("-"), NumTok(30)>>,
           notes |-> <<>>]

\* A date no parser reads.
RowJunk == [name |-> Str_Al, date |-> <<WordTok("abc")>>, notes |-> <<"b">>]

\* A blank name.
RowBlank == [name |-> <<" ">>, date |-> <<NumTok(5), SepTok("-"), NumTok(27)>>,
             notes |-> <<>>]

Catalogue == {RowAl, RowBo, RowAB, RowLeap, RowBad, RowJunk, RowBlank}

\* A CSV file holds at most MaxRows rows.
MaxRows == 2

RowSeqs == UNION {[1..k -> Catalogue] : k \in 0..MaxRows}

DefaultFiles == {File(rows) : rows \in RowSeqs} \cup {Missing}

Uploads == {File(<<RowBo, RowAl>>), File(<<RowBad>>)}

Queries == {<<>>, <<"a">>, <<"B">>}

\* Values of the slider (7 .. 365, 60 at the start).
SoonDays == {7, 60, 365}

\* The script is followed over MaxTicks midnights from StartDay on.
MaxTicks == 1

StartDay == [year |-> 2025, month |-> 5, day |-> 26]

\* date + timedelta(days=1): the clock passing midnight.
NextDay(d) ==
    IF d.day < DaysInMonth(d.year, d.month) THEN [d EXCEPT !.day = d.day + 1]
    ELSE IF d.month < 12 THEN [d EXCEPT !.month = d.month + 1, !.day = 1]
    ELSE [year |-> d.year + 1, month |-> 1, day |-> 1]

OccIdle == person = None /\ occ = NotRun

ParseIdle == cell_text = <<>> /\ parsed = NotRun

AppIdle ==
    /\ disk = <<>> /\ cache = <<>> /\ session = <<>> /\ page_df = NotRun /\ page_m = <<>>

IcsIdle == frame = <<>> /\ doc = NotRun

(***************************************************************************)
(* SpecOcc: one Person evaluated against one reference date                *)
(***************************************************************************)
InitOcc ==
    /\ today \in AllDays
    /\ person \in Persons
    /\ occ = NotRun
    /\ ParseIdle /\ AppIdle /\ IcsIdle

Evaluate ==
    /\ occ = NotRun
    /\ occ' = MakeRecord(person, today)
    /\ UNCHANGED <<today, person, parseVars, appVars, icsVars>>

NextOcc == Evaluate

SpecOcc == InitOcc /\ [][NextOcc]_vars

(***************************************************************************)
(* SpecParse: parse_date_cell applied to one text                          *)
(***************************************************************************)
NumVals == {2, 5, 13, 27, 30, 45, 1990}

Fields == {NumTok(v) : v \in NumVals} \cup {WordTok("May"), WordTok("abc")}

Seps == {SepTok("-"), SepTok("/"), SepTok(" ")}

\* Texts of no, one, two and three fields; the shorter ones also with blanks
\* around them.
Texts ==
    LET one == {<<a>> : a \in Fields}
        two == {<<a, x, b>> : a \in Fields, x \in Seps, b \in Fields}
        three == {<<a, x, b, y, c>> :
                    a \in Fields, x \in Seps, b \in Fields, y \in Seps, c \in Fields}
    IN  {<<>>} \cup one \cup two \cup three
        \cup {<<SepTok(" ")>> \o t \o <<SepTok(" ")>> : t \in one \cup two}

ParseDays == {[year |-> 2025, month |-> 1, day |-> 31],
              [year |-> 2024, month |-> 2, day |-> 29]}

InitParse ==
    /\ today \in ParseDays
    /\ cell_text \in Texts
    /\ parsed = NotRun
    /\ OccIdle /\ AppIdle /\ IcsIdle

Parse ==
    /\ parsed = NotRun
    /\ parsed' = parse_date_cell(cell_text, today)
    /\ UNCHANGED <<today, cell_text, occVars, appVars, icsVars>>

NextParse == Parse

SpecParse == InitParse /\ [][NextParse]_vars

(***************************************************************************)
(* Spec: a session of the app.  Every interaction re-runs the script with  *)
(* the widgets' new values.                                                *)
(***************************************************************************)
Init ==
    /\ today = StartDay
    /\ \E f \in DefaultFiles :
          disk = [path \in {DEFAULT_CSV_PATH, tmp_path} |->
                    IF path = DEFAULT_CSV_PATH THEN f ELSE Missing]
    /\ cache = [path \in {DEFAULT_CSV_PATH, tmp_path} |-> NoEntry]
    /\ session = [uploaded |-> None, query |-> <<>>, soon_days |-> 60,
                  only_upcoming |-> TRUE]
    /\ page_df = NotRun
    /\ page_m = <<>>
    /\ OccIdle /\ ParseIdle /\ IcsIdle

\* The script's globals after a run: src is what the data source selection
\* gave; an exception escaping it ends the run.
Commit(w, src) ==
    /\ session' = w
    /\ cache' = src.cache
    /\ disk' = src.disk
    /\ page_df' = src.out
    /\ page_m' = IF src.out.kind = "ok"
                 THEN apply_filters(src.out.val, w.query, w.soon_days, w.only_upcoming)
                 ELSE <<>>
    /\ UNCHANGED <<today, occVars, parseVars, icsVars>>

\* One run of the script with the widgets at w.
Run(w) == Commit(w, select_source(w.uploaded, cache, disk, today))

Rerun == Run(session)

SetQuery == \E q \in Queries \ {session.query} : Run([session EXCEPT !.query = q])

SetSoonDays ==
    \E n \in SoonDays \ {session.soon_days} : Run([session EXCEPT !.soon_days = n])

ToggleOnlyUpcoming == Run([session EXCEPT !.only_upcoming = ~session.only_upcoming])

Upload == \E f \in Uploads : Run([session EXCEPT !.uploaded = <<f>>])

ClearUpload ==
    /\ session.uploaded # None
    /\ Run([session EXCEPT !.uploaded = None])

Tick ==
    /\ DaysBetween(today, StartDay) < MaxTicks
    /\ today' = NextDay(today)
    /\ UNCHANGED <<occVars, parseVars, appVars, icsVars>>

Next ==
    \/ Rerun
    \/ SetQuery
    \/ SetSoonDays
    \/ ToggleOnlyUpcoming
    \/ Upload
    \/ ClearUpload
    \/ Tick

Spec == Init /\ [][Next]_vars

(***************************************************************************)
(* SpecIcs: make_ics applied to a frame load_birthdays returned            *)
(***************************************************************************)
IcsDays == {[year |-> 2024, month |-> 2, day |-> 28],
            [year |-> 2024, month |-> 5, day |-> 27],
            [year |-> 2025, month |-> 2, day |-> 27],
            [year |-> 2025, month |-> 3, day |-> 1],
            [year |-> 2025, month |-> 5, day |-> 26],
            [year |-> 2025, month |-> 5, day |-> 28]}

cal_name == <<"Birthday Board">>

InitIcs ==
    /\ today \in IcsDays
    /\ frame \in {out.val : out \in {x \in {load_birthdays(f, today) : f \in DefaultFiles} :
                                        x.kind = "ok"}}
    /\ doc = NotRun
    /\ OccIdle /\ ParseIdle /\ AppIdle

Export ==
    /\ doc = NotRun
    /\ doc' = Ok(make_ics(frame, cal_name))
    /\ UNCHANGED <<today, frame, occVars, parseVars, appVars>>

NextIcs == Export

SpecIcs == InitIcs /\ [][NextIcs]_vars

(***************************************************************************)
(* Properties of SpecOcc                                                   *)
(***************************************************************************)
\* (month, day) exists in some year; Feb 29 does.
IsCalendarDay(p) ==
    /\ p.month \in 1..12
    /\ p.day >= 1
    /\ p.day <= <<31, 29, 31, 30, 31, 30, 31, 31, 30, 31, 30, 31>>[p.month]

\* Date e is an occurrence of p's birthday: the same month and day, or Feb 28
\* of a common year for a Feb 29 record.
Matches(e, p) ==
    \/ e.month = p.month /\ e.day = p.day
    \/ p.month = 2 /\ p.day = 29 /\ e.month = 2 /\ e.day = 28 /\ ~IsLeap(e.year)

\* The real dates of years y0 .. y1 that can be an occurrence of p at all:
\* those with p's month and day, and Feb 28.
Candidates(p, y0, y1) ==
    {e \in {[year |-> y, month |-> md[1], day |-> md[2]] :
                y \in y0..y1, md \in {<<p.month, p.day>>, <<2, 28>>}} :
        e.day <= DaysInMonth(e.year, e.month)}

Evaluated == occ.kind # "notrun"

\* C1: for a record whose (month, day) is a calendar day, next_birthday(today)
\* is the soonest date d >= today that is an occurrence of the birthday (the
\* record's month and day, or Feb 28 of a common year for a Feb 29 record): no
\* occurrence lies in [today, d), and a birthday that is today gives d = today
\* with days_until 0 and is_today true.
C1_NextBirthdayIsSoonest ==
    (Evaluated /\ IsCalendarDay(person)) =>
        /\ occ.kind = "ok"
        /\ LET d == occ.val.next_date
           IN  /\ d.month \in 1..12 /\ d.day \in 1..DaysInMonth(d.year, d.month)
               /\ toordinal(d) >= toordinal(today)
               /\ Matches(d, person)
               /\ \A e \in Candidates(person, today.year, d.year) :
                      (Matches(e, person) /\ toordinal(e) >= toordinal(today))
                          => toordinal(e) >= toordinal(d)
               /\ Matches(today, person) =>
                      /\ d = today
                      /\ occ.val.days_until = 0
                      /\ occ.val.is_today

\* Witness of C1: a Feb 29 record evaluated on Feb 28 of a common year is due
\* that very day.
C1_Witness ==
    /\ Evaluated /\ occ.kind = "ok"
    /\ person.month = 2 /\ person.day = 29
    /\ today.month = 2 /\ today.day = 28 /\ ~IsLeap(today.year)
    /\ occ.val.next_date = today /\ occ.val.is_today

\* C7: for a record whose (month, day) is a calendar day, the days_until of the
\* record load_birthdays builds satisfies 0 <= days_until < 366.
C7_DaysUntilRange ==
    (Evaluated /\ IsCalendarDay(person)) =>
        /\ occ.kind = "ok"
        /\ occ.val.days_until >= 0
        /\ occ.val.days_until < 366

\* Witness of C7: a Feb 29 record the day after its Feb 28 stand-in, a leap
\* year ahead: the longest wait, 365 days.
C7_Witness ==
    /\ Evaluated /\ occ.kind = "ok"
    /\ person.month = 2 /\ person.day = 29
    /\ today.month = 3 /\ today.day = 1
    /\ occ.val.next_date.day = 29
    /\ occ.val.days_until = 365

\* This year's occurrence of p's birthday.
ThisYearOccurrence(p, t) ==
    CHOOSE e \in Candidates(p, t.year, t.year) : Matches(e, p)

\* C8: turning is present iff the origin year is set, and is then the year of
\* the next occurrence minus the origin year, the next occurrence being next
\* year's exactly when this year's is strictly before today; born 1990-05-27,
\* it is 35 on 2025-05-01 and 36 on 2025-05-28.
C8_TurningAge ==
    (Evaluated /\ occ.kind = "ok") =>
        /\ (occ.val.turning = None) <=> (person.year = None)
        /\ person.year # None =>
              /\ occ.val.turning = <<occ.val.next_date.year - person.year[1]>>
              /\ IsCalendarDay(person) =>
                    occ.val.turning[1] =
                        (IF toordinal(ThisYearOccurrence(person, today)) < toordinal(today)
                         THEN today.year + 1 ELSE today.year) - person.year[1]
              /\ (person.year = <<1990>> /\ person.month = 5 /\ person.day = 27
                    /\ today = [year |-> 2025, month |-> 5, day |-> 1])
                      => occ.val.turning = <<35>>
              /\ (person.year = <<1990>> /\ person.month = 5 /\ person.day = 27
                    /\ today = [year |-> 2025, month |-> 5, day |-> 28])
                      => occ.val.turning = <<36>>

\* Witness of C8: born 1990-05-27 and evaluated the day after the 2025 birthday.
C8_Witness ==
    /\ Evaluated /\ occ.kind = "ok"
    /\ person.year = <<1990>> /\ person.month = 5 /\ person.day = 27
    /\ today = [year |-> 2025, month |-> 5, day |-> 28]
    /\ occ.val.turning = <<36>>

(***************************************************************************)
(* Properties of SpecParse                                                 *)
(***************************************************************************)
Parsed == parsed.kind = "ok"

\* C4: parse_date_cell returns (month, day, year?) only when month is in
\* 1..12 and day is a day of that month; every other text raises ValueError.
C4_ParsedIsCalendarDay ==
    Parsed => IsCalendarDay([month |-> parsed.val[1], day |-> parsed.val[2]])

\* The fields of a text: its numbers and words.
FieldsOf(s) == {i \in DOMAIN s : s[i].t # "sep"}

\* The text holds no year: at most two fields, none a number that can only
\* be a year.
CarriesNoYear(s) ==
    /\ Cardinality(FieldsOf(s)) <= 2
    /\ \A i \in FieldsOf(s) : s[i].t = "num" => s[i].v <= 31

\* C6: parse_date_cell never fabricates a year: for a text that carries no
\* year the returned year is None.
C6_NoYearFabricated ==
    (Parsed /\ CarriesNoYear(cell_text)) => parsed.val[3] = None

(***************************************************************************)
(* Properties of Spec                                                      *)
(***************************************************************************)
\* C2: a run of the script that loads the default file gets the records
\* computed against the date of that run, also when an earlier run loaded the
\* same file on an earlier date.
C2_RerunIsFresh ==
    [][(today' = today /\ page_df'.kind = "ok" /\ session'.uploaded = None)
          => page_df' = load_birthdays(disk'[DEFAULT_CSV_PATH], today')]_vars

\* A row load_birthdays has to keep: a name that is not blank and a date that
\* parses to a calendar day.
IsGoodRow(row, t) ==
    /\ strip_str(row.name) # <<>>
    /\ parse_date_cell(row.date, t).kind = "ok"
    /\ IsCalendarDay([month |-> parse_date_cell(row.date, t).val[1],
                      day |-> parse_date_cell(row.date, t).val[2]])

\* C3: load_birthdays does not raise, whatever the rows, and every row with a
\* name and a valid date is in its output.
C3_FaultIsolated ==
    (page_df.kind # "notrun" /\ session.uploaded = None) =>
        /\ page_df.kind = "ok"
        /\ \A i \in DOMAIN read_csv(disk[DEFAULT_CSV_PATH]) :
              IsGoodRow(read_csv(disk[DEFAULT_CSV_PATH])[i], today) =>
                  \E k \in DOMAIN page_df.val :
                      /\ page_df.val[k].name =
                            strip_str(read_csv(disk[DEFAULT_CSV_PATH])[i].name)
                      /\ page_df.val[k].month =
                            parse_date_cell(read_csv(disk[DEFAULT_CSV_PATH])[i].date,
                                            today).val[1]

\* Upper-case spelling of a str.
FoldCase(s) ==
    [i \in DOMAIN s |-> CASE s[i] = "a" -> "A" [] s[i] = "b" -> "B" [] OTHER -> s[i]]

\* q occurs in s, letter case ignored.
Occurs(q, s) ==
    \E i \in 0..(Len(s) - Len(q)) :
        SubSeq(FoldCase(s), i + 1, i + Len(q)) = FoldCase(q)

\* The record passes the filters of the sidebar.
PassesFilters(r) ==
    /\ Occurs(session.query, r.name) \/ Occurs(session.query, r.notes)
    /\ session.only_upcoming => r.days_until <= session.soon_days

\* The k-th smallest element of a set of numbers.
Nth(S, k) == CHOOSE i \in S : Cardinality({j \in S : j < i}) = k - 1

Exported == doc.kind = "ok"

LinesEqual(lines, line) == {i \in DOMAIN lines : lines[i] = line}

\* C5: make_ics on an empty frame returns the calendar envelope with no event
\* in it, not the empty byte string.
C5_EmptyEnvelope ==
    (Exported /\ frame = <<>>) =>
        /\ doc.val # <<>>
        /\ doc.val[1] = <<"BEGIN:VCALENDAR">>
        /\ doc.val[Len(doc.val)] = <<"END:VCALENDAR">>
        /\ LinesEqual(doc.val, <<"BEGIN:VEVENT">>) = {}

\* The identifier of an event, from the record's name, month and day.
UidLine(name, month, day) ==
    <<"UID:">> \o [i \in DOMAIN name |-> IF name[i] = " " THEN "_" ELSE name[i]]
        \o <<"--">> \o fmt_02d(month) \o fmt_02d(day) \o <<"@birthdayboard">>

RRuleLine(month, day) ==
    <<"RRULE:FREQ=YEARLY;BYMONTH=">> \o Digits(month) \o <<";BYMONTHDAY=">> \o Digits(day)

\* C9: make_ics on N >= 1 records gives a document with exactly N event
\* blocks, in the order of the records, each with the UID its record's
\* (name, month, day) determine and an RRULE by the record's month and day.
C9_OneEventPerRecord ==
    (Exported /\ frame # <<>>) =>
        LET lines == doc.val
            begins == LinesEqual(lines, <<"BEGIN:VEVENT">>)
            ends == LinesEqual(lines, <<"END:VEVENT">>)
        IN  /\ lines[1] = <<"BEGIN:VCALENDAR">>
            /\ lines[Len(lines)] = <<"END:VCALENDAR">>
            /\ Cardinality(begins) = Len(frame)
            /\ Cardinality(ends) = Len(frame)
            /\ \A k \in DOMAIN frame :
                  /\ Nth(begins, k) < Nth(ends, k)
                  /\ k < Len(frame) => Nth(ends, k) < Nth(begins, k + 1)
                  /\ lines[Nth(begins, k) + 1] =
                        UidLine(frame[k].name, frame[k].month, frame[k].day)
                  /\ lines[Nth(begins, k) + 3] = RRuleLine(frame[k].month, frame[k].day)

\* Witness of C9: two records exported, one of Feb 29 that starts on a Feb 28.
C9_Witness ==
    /\ Exported
    /\ Len(frame) = 2
    /\ \E k \in DOMAIN frame :
          /\ frame[k].month = 2 /\ frame[k].day = 29
          /\ frame[k].next_date.day = 28
    /\ Cardinality(LinesEqual(doc.val, <<"BEGIN:VEVENT">>)) = 2

====
